---- MODULE Spec2Model ----
(***************************************************************************)
(* A model of zfs_report.py (class ZFSReporter).                           *)
(*                                                                         *)
(* Text is modelled as the program sees it: a Python str is a sequence of  *)
(* one-character strings, and the str methods the program calls (strip,    *)
(* split, startswith, in, isdigit, int, str, lower, rstrip, re.search) are *)
(* operators computed character by character.  A dict is a function from   *)
(* its keys; insertion order, which only orders the table rows, is not     *)
(* modelled.                                                               *)
(*                                                                         *)
(* An external command either exits 0 or exits non-zero (the               *)
(* CalledProcessError that run_zfs_command catches).  A zpool binary that  *)
(* cannot be started (OSError) and the reading of the configuration file   *)
(* are outside the model: the thresholds are taken as already loaded.      *)
(***************************************************************************)
EXTENDS Integers, Sequences, FiniteSets, TLC

VARIABLES
    pc,            \* position of the run inside run_report / generate_report / send_email
    cfg,           \* the alert thresholds read by __init__ (self.capacity_warning, ...)
    now,           \* datetime.now() of the run
    pool_health,   \* result of get_pool_health() of the current phase
    pool_usage,    \* result of get_pool_usage()
    pool_errors,   \* result of get_pool_errors() of the current phase
    scrub_status,  \* result of get_scrub_status() of the current phase
    pool_names,    \* get_scrub_status: names still to be queried in the for loop
    report,        \* the report built by generate_report (NoReport before)
    subject,       \* the subject chosen by run_report (NoSubject before)
    smtp,          \* send_email: what happened to the transport
    console,       \* the prints of the run, in order
    calls,         \* every external command invoked so far with its outcome, in order
    input,         \* input text of the parser under study (the parser specifications)
    output         \* result of the function under study (the parser specifications)

vars == <<pc, cfg, now, pool_health, pool_usage, pool_errors, scrub_status, pool_names,
          report, subject, smtp, console, calls, input, output>>

-----------------------------------------------------------------------------
(* Python str operations, on sequences of one-character strings.           *)

DigitChars == <<"0", "1", "2", "3", "4", "5", "6", "7", "8", "9">>

LowerChars == <<"a", "b", "c", "d", "e", "f", "g", "h", "i", "j", "k", "l", "m",
                "n", "o", "p", "q", "r", "s", "t", "u", "v", "w", "x", "y", "z">>

UpperChars == <<"A", "B", "C", "D", "E", "F", "G", "H", "I", "J", "K", "L", "M",
                "N", "O", "P", "Q", "R", "S", "T", "U", "V", "W", "X", "Y", "Z">>

Range(f) == {f[i] : i \in DOMAIN f}

IsSpaceChar(c) == c \in {" ", "\t", "\n"}

IsDigitChar(c) == c \in Range(DigitChars)

\* \w of the re module
IsWordChar(c) == c \in Range(DigitChars) \cup Range(LowerChars) \cup Range(UpperChars) \cup {"_"}

IndexIn(c, seq) == CHOOSE i \in DOMAIN seq : seq[i] = c

DigitValue(c) == IndexIn(c, DigitChars) - 1

LowerChar(c) == IF c \in Range(UpperChars) THEN LowerChars[IndexIn(c, UpperChars)] ELSE c

\* s.lower()
Lower(s) == [i \in DOMAIN s |-> LowerChar(s[i])]

\* s.lstrip(), s.rstrip(), s.strip()
LStrip(s) ==
    IF \A i \in DOMAIN s : IsSpaceChar(s[i]) THEN <<>>
    ELSE SubSeq(s, CHOOSE i \in DOMAIN s :
                       /\ ~IsSpaceChar(s[i])
                       /\ \A j \in 1..(i - 1) : IsSpaceChar(s[j]), Len(s))

RStrip(s) ==
    IF \A i \in DOMAIN s : IsSpaceChar(s[i]) THEN <<>>
    ELSE SubSeq(s, 1, CHOOSE i \in DOMAIN s :
                          /\ ~IsSpaceChar(s[i])
                          /\ \A j \in (i + 1)..Len(s) : IsSpaceChar(s[j]))

Strip(s) == LStrip(RStrip(s))

\* s.rstrip(c) for one character c
RStripChar(s, c) ==
    IF \A i \in DOMAIN s : s[i] = c THEN <<>>
    ELSE SubSeq(s, 1, CHOOSE i \in DOMAIN s :
                          /\ s[i] # c
                          /\ \A j \in (i + 1)..Len(s) : s[j] = c)

\* s.startswith(p)
StartsWith(s, p) == Len(p) <= Len(s) /\ SubSeq(s, 1, Len(p)) = p

\* the positions at which p occurs in s
Occurrences(s, p) == {i \in 1..(Len(s) - Len(p) + 1) : SubSeq(s, i, i + Len(p) - 1) = p}

\* p in s
Contains(s, p) == Len(p) = 0 \/ Occurrences(s, p) # {}

\* s.split(c) for one character c: the pieces between the occurrences of c
Split(s, c) ==
    LET cuts == {i \in DOMAIN s : s[i] = c}
        bounds == {0} \cup cuts \cup {Len(s) + 1}
        nth[k \in 1..(Cardinality(cuts) + 1)] ==
            \* the start (a cut or 0) of the k-th piece
            IF k = 1 THEN 0
            ELSE CHOOSE b \in cuts : Cardinality({x \in cuts : x < b}) = k - 2
        piece(k) ==
            LET from == nth[k]
                to == CHOOSE b \in bounds : b > from /\ \A x \in bounds : x > from => b <= x
            IN  SubSeq(s, from + 1, to - 1)
    IN  [k \in 1..(Cardinality(cuts) + 1) |-> piece(k)]

\* s.split(c, 1)[1], for a string that holds c
AfterFirst(s, c) ==
    LET i == CHOOSE k \in DOMAIN s : s[k] = c /\ \A j \in 1..(k - 1) : s[j] # c
    IN  SubSeq(s, i + 1, Len(s))

\* s.split(): the maximal runs of non-whitespace characters
SplitWhitespace(s) ==
    LET starts == {i \in DOMAIN s : ~IsSpaceChar(s[i]) /\ (i = 1 \/ IsSpaceChar(s[i - 1]))}
        start[k \in 1..Cardinality(starts)] ==
            CHOOSE b \in starts : Cardinality({x \in starts : x < b}) = k - 1
        stop(from) ==
            CHOOSE e \in from..Len(s) :
                /\ \A j \in from..e : ~IsSpaceChar(s[j])
                /\ (e = Len(s) \/ IsSpaceChar(s[e + 1]))
    IN  [k \in 1..Cardinality(starts) |-> SubSeq(s, start[k], stop(start[k]))]

\* s.isdigit()
IsDigit(s) == Len(s) > 0 /\ \A i \in DOMAIN s : IsDigitChar(s[i])

\* int(s) for a string of digits
RECURSIVE ParseInt(_)
ParseInt(s) ==
    IF Len(s) = 0 THEN 0
    ELSE 10 * ParseInt(SubSeq(s, 1, Len(s) - 1)) + DigitValue(s[Len(s)])

\* str(n) for an integer n
RECURSIVE NatStr(_)
NatStr(n) == IF n < 10 THEN <<DigitChars[n + 1]>> ELSE NatStr(n \div 10) \o <<DigitChars[(n % 10) + 1]>>

IntStr(n) == IF n < 0 THEN <<"-">> \o NatStr(-n) ELSE NatStr(n)

\* sep.join(parts)
RECURSIVE Join(_, _)
Join(parts, sep) ==
    IF Len(parts) = 0 THEN <<>>
    ELSE IF Len(parts) = 1 THEN parts[1]
    ELSE parts[1] \o sep \o Join(Tail(parts), sep)

\* s.replace(p, "") : every non-overlapping occurrence of p, left to right, removed
RECURSIVE RemoveAll(_, _)
RemoveAll(s, p) ==
    IF Len(s) < Len(p) THEN s
    ELSE IF StartsWith(s, p) THEN RemoveAll(SubSeq(s, Len(p) + 1, Len(s)), p)
    ELSE <<s[1]>> \o RemoveAll(Tail(s), p)

-----------------------------------------------------------------------------
(* The string literals of the program.                                     *)

S_zpool == <<"z", "p", "o", "o", "l">>

S_list == <<"l", "i", "s", "t">>

S_H == <<"-", "H">>

S_o == <<"-", "o">>

S_status == <<"s", "t", "a", "t", "u", "s">>

S_name_health == <<"n", "a", "m", "e", ",", "h", "e", "a", "l", "t", "h">>

S_name_usage == <<"n", "a", "m", "e", ",", "s", "i", "z", "e", ",", "a", "l", "l", "o", "c", ",", "f", "r", "e", "e", ",", "c", "a", "p">>

S_name == <<"n", "a", "m", "e">>

S_ErrorRunning == <<"E", "r", "r", "o", "r", " ", "r", "u", "n", "n", "i", "n", "g", " ">>

S_ColonSpace == <<":", " ">>

S_ONLINE == <<"O", "N", "L", "I", "N", "E">>

S_UNKNOWN == <<"U", "N", "K", "N", "O", "W", "N">>

S_NA == <<"N", "/", "A">>

S_Never == <<"N", "e", "v", "e", "r">>

S_0 == <<"0">>

S_NoScrubInfo == <<"N", "o", " ", "s", "c", "r", "u", "b", " ", "i", "n", "f", "o", " ", "f", "o", "u", "n", "d">>

S_pool_marker == <<"p", "o", "o", "l", ":">>

S_config_marker == <<"c", "o", "n", "f", "i", "g", ":">>

S_scan_marker == <<"s", "c", "a", "n", ":">>

S_scrub_marker == <<"s", "c", "r", "u", "b", ":">>

S_on_space == <<"o", "n", " ">>

-----------------------------------------------------------------------------
(* The command runner and the four parsers.                                *)

\* dict assignment d[k] = v
Put(d, k, v) == [x \in (DOMAIN d) \cup {k} |-> IF x = k THEN v ELSE d[x]]

\* dict.get(k, default)
Get(d, k, default) == IF k \in DOMAIN d THEN d[k] ELSE default

EmptyDict == [x \in {} |-> x]

\* The outcome of subprocess.run(cmd, capture_output=True, text=True, check=True):
\* exit status 0 with its stdout, or CalledProcessError (a non-zero exit) with its stderr.
Exited(rc, out, err) == [returncode |-> rc, stdout |-> out, stderr |-> err]

\* what a call denotes when an exception leaves it: the run ends with a traceback
Raised == <<"(raised)">>

\* run_zfs_command without its except clause: CalledProcessError leaves it
run_zfs_command_uncaught(cmd, result) ==
    IF result.returncode = 0 THEN Strip(result.stdout) ELSE Raised

run_zfs_command(cmd, result) ==
    IF result.returncode = 0
    THEN Strip(result.stdout)
    ELSE S_ErrorRunning \o Join(cmd, <<" ">>) \o S_ColonSpace \o result.stderr

\* The five invocation shapes.
CmdListHealth == <<S_zpool, S_list, S_H, S_o, S_name_health>>
CmdListUsage == <<S_zpool, S_list, S_H, S_o, S_name_usage>>
CmdListNames == <<S_zpool, S_list, S_H, S_o, S_name>>
CmdStatus == <<S_zpool, S_status>>
CmdStatusPool(pool) == <<S_zpool, S_status, pool>>

\* get_pool_health, from the text run_zfs_command returned
RECURSIVE HealthLines(_, _, _)
HealthLines(lines, i, pools) ==
    IF i > Len(lines) THEN pools
    ELSE LET line == lines[i]
             parts == Split(line, "\t")
         IN  IF Strip(line) # <<>> /\ Len(parts) >= 2
             THEN HealthLines(lines, i + 1, Put(pools, parts[1], parts[2]))
             ELSE HealthLines(lines, i + 1, pools)

get_pool_health(text) == HealthLines(Split(text, "\n"), 1, EmptyDict)

\* get_pool_usage, from the text run_zfs_command returned
RECURSIVE UsageLines(_, _, _)
UsageLines(lines, i, pools) ==
    IF i > Len(lines) THEN pools
    ELSE LET line == lines[i]
             parts == Split(line, "\t")
         IN  IF Strip(line) # <<>> /\ Len(parts) >= 5
             THEN UsageLines(lines, i + 1,
                             Put(pools, parts[1], [size |-> parts[2], allocated |-> parts[3],
                                                   free |-> parts[4], capacity |-> parts[5]]))
             ELSE UsageLines(lines, i + 1, pools)

get_pool_usage(text) == UsageLines(Split(text, "\n"), 1, EmptyDict)

ZeroErrors == [read |-> S_0, write |-> S_0, cksum |-> S_0]

DigitsOrZero(s) == IF IsDigit(s) THEN s ELSE S_0

\* the counts read off one summary line: its last three whitespace-separated tokens
SummaryCounts(parts) ==
    [read  |-> DigitsOrZero(parts[Len(parts) - 2]),
     write |-> DigitsOrZero(parts[Len(parts) - 1]),
     cksum |-> DigitsOrZero(parts[Len(parts)])]

\* get_pool_errors, from the text run_zfs_command returned.  current_pool is <<>> for
\* None (None and '' are both falsy, and nothing else is asked of it).
RECURSIVE ErrorLines(_, _, _, _)
ErrorLines(lines, i, current_pool, pools) ==
    IF i > Len(lines) THEN pools
    ELSE LET line == Strip(lines[i])
             parts == SplitWhitespace(line)
         IN  IF StartsWith(line, S_pool_marker)
             THEN LET name == Strip(AfterFirst(line, ":"))
                  IN  ErrorLines(lines, i + 1, name, Put(pools, name, ZeroErrors))
             ELSE IF /\ current_pool # <<>>
                     /\ Contains(line, current_pool)
                     /\ ~StartsWith(line, S_config_marker)
                     /\ Len(parts) >= 4
             THEN ErrorLines(lines, i + 1, current_pool,
                             Put(pools, current_pool, SummaryCounts(parts)))
             ELSE ErrorLines(lines, i + 1, current_pool, pools)

get_pool_errors(text) == ErrorLines(Split(text, "\n"), 1, <<>>, EmptyDict)

-----------------------------------------------------------------------------
(* get_scrub_status: the scrub line, its date, and the age in days.        *)

\* re: \s+ at position p; the position after the run, 0 when none matches
SkipSpaces(s, p) ==
    IF p = 0 \/ p > Len(s) \/ ~IsSpaceChar(s[p]) THEN 0
    ELSE CHOOSE q \in (p + 1)..(Len(s) + 1) :
             /\ \A j \in p..(q - 1) : IsSpaceChar(s[j])
             /\ (q = Len(s) + 1 \/ ~IsSpaceChar(s[q]))

\* re: \w{3} at position p
SkipWord3(s, p) ==
    IF p # 0 /\ p + 2 <= Len(s) /\ \A j \in p..(p + 2) : IsWordChar(s[j]) THEN p + 3 ELSE 0

\* re: \d{n} at position p
SkipDigits(s, p, n) ==
    IF p # 0 /\ p + n - 1 <= Len(s) /\ \A j \in p..(p + n - 1) : IsDigitChar(s[j]) THEN p + n ELSE 0

\* re: \d{1,2} at position p (greedy; what follows is \s, so no shorter match can succeed)
SkipDigits12(s, p) ==
    IF SkipDigits(s, p, 2) # 0 THEN p + 2 ELSE SkipDigits(s, p, 1)

\* re: one literal character at position p
SkipChar(s, p, c) == IF p # 0 /\ p <= Len(s) /\ s[p] = c THEN p + 1 ELSE 0

\* re: \d{2}:\d{2}:\d{2} at position p
SkipClock(s, p) ==
    SkipDigits(s, SkipChar(s, SkipDigits(s, SkipChar(s, SkipDigits(s, p, 2), ":"), 2), ":"), 2)

\* r'on\s+\w{3}\s+\w{3}\s+\d{1,2}\s+\d{2}:\d{2}:\d{2}\s+\d{4}' matched at position p:
\* the position after the match, 0 when there is none
DateMatchEnd(s, p) ==
    LET afterOn == SkipChar(s, SkipChar(s, p, "o"), "n")
        afterDay == SkipWord3(s, SkipSpaces(s, afterOn))
        afterMonth == SkipWord3(s, SkipSpaces(s, afterDay))
        afterDom == SkipDigits12(s, SkipSpaces(s, afterMonth))
        afterClock == SkipClock(s, SkipSpaces(s, afterDom))
    IN  SkipDigits(s, SkipSpaces(s, afterClock), 4)

\* re.search(...): the leftmost match, as the matched text; NoMatch when there is none
NoMatch == <<"(None)">>

DateSearch(s) ==
    LET hits == {p \in DOMAIN s : DateMatchEnd(s, p) # 0}
    IN  IF hits = {} THEN NoMatch
        ELSE LET p == CHOOSE h \in hits : \A x \in hits : h <= x
             IN  SubSeq(s, p, DateMatchEnd(s, p) - 1)

DayNames == << <<"m", "o", "n">>, <<"t", "u", "e">>, <<"w", "e", "d">>, <<"t", "h", "u">>,
               <<"f", "r", "i">>, <<"s", "a", "t">>, <<"s", "u", "n">> >>

MonthNames == << <<"j", "a", "n">>, <<"f", "e", "b">>, <<"m", "a", "r">>, <<"a", "p", "r">>,
                 <<"m", "a", "y">>, <<"j", "u", "n">>, <<"j", "u", "l">>, <<"a", "u", "g">>,
                 <<"s", "e", "p">>, <<"o", "c", "t">>, <<"n", "o", "v">>, <<"d", "e", "c">> >>

IsLeap(y) == (y % 4 = 0 /\ y % 100 # 0) \/ y % 400 = 0

DaysInMonth(y, m) ==
    IF m = 2 THEN (IF IsLeap(y) THEN 29 ELSE 28)
    ELSE IF m \in {4, 6, 9, 11} THEN 30 ELSE 31

\* days from 0001-01-01 to y-m-d (date.toordinal)
RECURSIVE DaysBeforeMonth(_, _)
DaysBeforeMonth(y, m) == IF m = 1 THEN 0 ELSE DaysBeforeMonth(y, m - 1) + DaysInMonth(y, m - 1)

Ordinal(y, m, d) ==
    LET p == y - 1
    IN  p * 365 + (p \div 4) - (p \div 100) + (p \div 400) + DaysBeforeMonth(y, m) + d

\* a datetime
DateTime(y, m, d, hh, mm, ss) == [year |-> y, month |-> m, day |-> d, hour |-> hh, minute |-> mm, second |-> ss]

ValueError == [year |-> 0, month |-> 0, day |-> 0, hour |-> 0, minute |-> 0, second |-> 0]

\* datetime.strptime(date_str, '%a %b %d %H:%M:%S %Y'); ValueError when it raises.
\* The text reaching it matched \w{3}\s+\w{3}\s+\d{1,2}\s+\d{2}:\d{2}:\d{2}\s+\d{4} up to what
\* replace('on ', '') removed from it.
strptime(date_str) ==
    LET f == SplitWhitespace(date_str)
    IN  IF \/ Len(f) # 5
           \/ IsSpaceChar(date_str[1])
           \/ Lower(f[1]) \notin Range(DayNames)
           \/ Lower(f[2]) \notin Range(MonthNames)
           \/ ~IsDigit(f[3]) \/ Len(f[3]) > 2
           \/ Len(f[4]) # 8
           \/ ~IsDigit(f[5]) \/ Len(f[5]) # 4
        THEN ValueError
        ELSE LET y == ParseInt(f[5])
                 m == IndexIn(Lower(f[2]), MonthNames)
                 d == ParseInt(f[3])
                 hh == ParseInt(SubSeq(f[4], 1, 2))
                 mm == ParseInt(SubSeq(f[4], 4, 5))
                 ss == ParseInt(SubSeq(f[4], 7, 8))
             IN  IF y >= 1 /\ d >= 1 /\ d <= DaysInMonth(y, m) /\ hh <= 23 /\ mm <= 59 /\ ss <= 59
                 THEN DateTime(y, m, d, hh, mm, ss)
                 ELSE ValueError

SecondOfDay(t) == t.hour * 3600 + t.minute * 60 + t.second

\* (a - b).days : whole days, rounded down
DaysBetween(a, b) ==
    Ordinal(a.year, a.month, a.day) - Ordinal(b.year, b.month, b.day)
        - (IF SecondOfDay(a) < SecondOfDay(b) THEN 1 ELSE 0)

Pad2(n) == IF n < 10 THEN <<"0">> \o NatStr(n) ELSE NatStr(n)

\* t.strftime('%Y-%m-%d %H:%M')
strftime(t) ==
    NatStr(t.year) \o <<"-">> \o Pad2(t.month) \o <<"-">> \o Pad2(t.day) \o <<" ">>
        \o Pad2(t.hour) \o <<":">> \o Pad2(t.minute)

DefaultScrubData == [status |-> S_NoScrubInfo, last_scrub |-> S_Never, days_ago |-> S_NA]

IsScrubLine(line) ==
    Contains(Lower(line), S_scan_marker) \/ Contains(Lower(line), S_scrub_marker)

\* full_scrub_line for the scrub line at index i (1-based) of lines
FullScrubLine(lines, i) ==
    IF i + 1 <= Len(lines) /\ StartsWith(Strip(lines[i + 1]), <<" ">>)
    THEN Strip(lines[i]) \o <<" ">> \o Strip(lines[i + 1])
    ELSE Strip(lines[i])

\* the scrub_data of one pool, from the text of its 'zpool status <pool>' and datetime.now()
ScrubData(status_output, today) ==
    LET lines == Split(status_output, "\n")
        hits == {i \in DOMAIN lines : IsScrubLine(lines[i])}
    IN  IF hits = {} THEN DefaultScrubData
        ELSE LET i == CHOOSE h \in hits : \A x \in hits : h <= x
                 full_scrub_line == FullScrubLine(lines, i)
                 date_match == DateSearch(full_scrub_line)
                 scrub_date == IF date_match = NoMatch THEN ValueError
                               ELSE strptime(RemoveAll(date_match, S_on_space))
             IN  IF scrub_date = ValueError
                 THEN [DefaultScrubData EXCEPT !.status = full_scrub_line]
                 ELSE [status |-> full_scrub_line,
                       last_scrub |-> strftime(scrub_date),
                       days_ago |-> IntStr(DaysBetween(today, scrub_date))]

-----------------------------------------------------------------------------
(* generate_report: the table rows and the summary; run_report: the subject *)

\* The three status icons: one symbol each in a cell's text.
CheckMark == "(check)"
CrossMark == "(cross)"
WarnMark == "(warning)"

\* usage = pool_usage.get(pool, {}) read with usage.get(key, 'N/A')
NoUsage == [size |-> S_NA, allocated |-> S_NA, free |-> S_NA, capacity |-> S_NA]

NoScrub == [last_scrub |-> S_Never, days_ago |-> S_NA]

\* int(s) succeeds (digits, with an optional sign); otherwise it raises ValueError
CanInt(s) == IsDigit(s) \/ (Len(s) > 1 /\ s[1] \in {"-", "+"} /\ IsDigit(Tail(s)))

TotalOf(errors) == ParseInt(errors.read) + ParseInt(errors.write) + ParseInt(errors.cksum)

\* scrub_ok: an age that is not all digits counts as unknown, hence as fine
ScrubOk(days_ago_str, c) ==
    IF IsDigit(days_ago_str) THEN ParseInt(days_ago_str) <= c.scrub_warning_days ELSE TRUE

OverallStatusNoHealth(health, total_errs, scrub_ok, c) ==
    IF health = S_ONLINE /\ total_errs = 0 /\ scrub_ok THEN CheckMark
    ELSE IF total_errs > c.error_critical THEN CrossMark
    ELSE WarnMark

OverallStatus(health, total_errs, scrub_ok, c) ==
    IF health = S_ONLINE /\ total_errs = 0 /\ scrub_ok THEN CheckMark
    ELSE IF health # S_ONLINE \/ total_errs > c.error_critical THEN CrossMark
    ELSE WarnMark

CapacityCellExclusive(capacity, c) ==
    IF capacity # S_NA /\ IsDigit(RStripChar(capacity, "%"))
    THEN LET cap_pct == ParseInt(RStripChar(capacity, "%"))
         IN  IF cap_pct > c.capacity_critical THEN capacity \o <<" ", CrossMark>>
             ELSE IF cap_pct >= c.capacity_warning THEN capacity \o <<" ", WarnMark>>
             ELSE capacity
    ELSE capacity

CapacityCell(capacity, c) ==
    IF capacity # S_NA /\ IsDigit(RStripChar(capacity, "%"))
    THEN LET cap_pct == ParseInt(RStripChar(capacity, "%"))
         IN  IF cap_pct >= c.capacity_critical THEN capacity \o <<" ", CrossMark>>
             ELSE IF cap_pct >= c.capacity_warning THEN capacity \o <<" ", WarnMark>>
             ELSE capacity
    ELSE capacity

DaysCell(days_ago_str, c) ==
    IF IsDigit(days_ago_str)
    THEN LET days == ParseInt(days_ago_str)
         IN  IF days > c.scrub_critical_days THEN IntStr(days) \o <<" ", CrossMark>>
             ELSE IF days > c.scrub_warning_days THEN IntStr(days) \o <<" ", WarnMark>>
             ELSE days_ago_str
    ELSE days_ago_str

\* one row of the table: the body of the loop over pool_health.keys()
Row(pool, healths, usages, errs, scrubs, c) ==
    LET health == Get(healths, pool, S_UNKNOWN)
        usage == Get(usages, pool, NoUsage)
        errors == Get(errs, pool, ZeroErrors)
        scrub == Get(scrubs, pool, NoScrub)
    IN  [pool       |-> pool,
         health     |-> health,
         size       |-> usage.size,
         used       |-> usage.allocated,
         free       |-> usage.free,
         capacity   |-> CapacityCell(usage.capacity, c),
         read_err   |-> IntStr(ParseInt(errors.read)),
         write_err  |-> IntStr(ParseInt(errors.write)),
         cksum_err  |-> IntStr(ParseInt(errors.cksum)),
         last_scrub |-> scrub.last_scrub,
         days_ago   |-> DaysCell(scrub.days_ago, c),
         status     |-> OverallStatus(health, TotalOf(errors), ScrubOk(scrub.days_ago, c), c)]

\* sum(int(read) + int(write) + int(cksum) for errors in errs.values()), over the keys given
RECURSIVE TotalErrorsOver(_, _)
TotalErrorsOver(errs, keys) ==
    IF keys = {} THEN 0
    ELSE LET k == CHOOSE x \in keys : TRUE
         IN  TotalOf(errs[k]) + TotalErrorsOver(errs, keys \ {k})

HealthyPools(healths) == Cardinality({p \in DOMAIN healths : healths[p] = S_ONLINE})

TotalErrors(errs) == TotalErrorsOver(errs, DOMAIN errs)

OldScrubs(scrubs, c) ==
    Cardinality({p \in DOMAIN scrubs :
        IsDigit(scrubs[p].days_ago) /\ ParseInt(scrubs[p].days_ago) > c.scrub_warning_days})

\* the warnings list of the summary, in the order the program appends
Warnings(total_pools, healthy_pools, total_errors, old_scrubs) ==
    (IF healthy_pools < total_pools
        THEN <<[kind |-> "not_online", n |-> total_pools - healthy_pools]>> ELSE <<>>)
    \o (IF total_errors > 0 THEN <<[kind |-> "errors", n |-> total_errors]>> ELSE <<>>)
    \o (IF old_scrubs > 0 THEN <<[kind |-> "need_scrubbing", n |-> old_scrubs]>> ELSE <<>>)

\* every int() of the rows and of the summary succeeds
ErrorsParse(errs) ==
    \A p \in DOMAIN errs : CanInt(errs[p].read) /\ CanInt(errs[p].write) /\ CanInt(errs[p].cksum)

NoReport == [rows |-> <<>>]

\* the report generate_report returns: the rows of the table (by pool), the summary block,
\* and the warnings list; an empty warnings list prints the all-clear line instead
BuildReport(healths, usages, errs, scrubs, c) ==
    LET total_pools == Cardinality(DOMAIN healths)
        healthy_pools == HealthyPools(healths)
        total_errors == TotalErrors(errs)
        old_scrubs == OldScrubs(scrubs, c)
        warnings == Warnings(total_pools, healthy_pools, total_errors, old_scrubs)
    IN  [rows          |-> [p \in DOMAIN healths |-> Row(p, healths, usages, errs, scrubs, c)],
         total_pools   |-> total_pools,
         healthy_pools |-> healthy_pools,
         total_errors  |-> total_errors,
         old_scrubs    |-> old_scrubs,
         warnings      |-> warnings,
         all_clear     |-> warnings = <<>>]

NoSubject == [icon |-> "", kind |-> "none", n |-> 0]

\* ChooseSubject with the error count looked at before the pool health
ChooseSubjectErrorsFirst(healths, errs, scrubs, c) ==
    LET healthy_pools == HealthyPools(healths)
        total_pools == Cardinality(DOMAIN healths)
        total_errors == TotalErrors(errs)
        old_scrubs == OldScrubs(scrubs, c)
    IN  IF healthy_pools = total_pools /\ total_errors = 0 /\ old_scrubs = 0
        THEN [icon |-> CheckMark, kind |-> "all_pools_healthy", n |-> total_pools]
        ELSE IF total_errors > 0
        THEN [icon |-> WarnMark, kind |-> "errors_detected", n |-> total_errors]
        ELSE IF healthy_pools < total_pools
        THEN [icon |-> CrossMark, kind |-> "pools_unhealthy", n |-> total_pools - healthy_pools]
        ELSE IF old_scrubs > 0
        THEN [icon |-> WarnMark, kind |-> "need_scrubbing", n |-> old_scrubs]
        ELSE [icon |-> CheckMark, kind |-> "all_systems_normal", n |-> 0]

\* the subject run_report composes
ChooseSubject(healths, errs, scrubs, c) ==
    LET healthy_pools == HealthyPools(healths)
        total_pools == Cardinality(DOMAIN healths)
        total_errors == TotalErrors(errs)
        old_scrubs == OldScrubs(scrubs, c)
    IN  IF healthy_pools = total_pools /\ total_errors = 0 /\ old_scrubs = 0
        THEN [icon |-> CheckMark, kind |-> "all_pools_healthy", n |-> total_pools]
        ELSE IF healthy_pools < total_pools
        THEN [icon |-> CrossMark, kind |-> "pools_unhealthy", n |-> total_pools - healthy_pools]
        ELSE IF total_errors > 0
        THEN [icon |-> WarnMark, kind |-> "errors_detected", n |-> total_errors]
        ELSE IF old_scrubs > 0
        THEN [icon |-> WarnMark, kind |-> "need_scrubbing", n |-> old_scrubs]
        ELSE [icon |-> CheckMark, kind |-> "all_systems_normal", n |-> 0]

-----------------------------------------------------------------------------
(* The environment: what the zpool executable may answer.  Each text is the  *)
(* stdout (or, for a non-zero exit, the stderr) of one invocation.          *)

\* zpool list -H -o name,health: one pool, ONLINE
Out_HealthOnline == <<"t", "a", "n", "k", "\t", "O", "N", "L", "I", "N", "E", "\n">>

\* one pool, DEGRADED
Out_HealthDegraded == <<"t", "a", "n", "k", "\t", "D", "E", "G", "R", "A", "D", "E", "D", "\n">>

\* zpool list on a host without pools
Out_NoPools == <<"n", "o", " ", "p", "o", "o", "l", "s", " ", "a", "v", "a", "i", "l", "a", "b", "l", "e", "\n">>

\* stderr of a zpool command that exits 1
Err_NoModule == <<"T", "h", "e", " ", "Z", "F", "S", " ", "m", "o", "d", "u", "l", "e", "s", " ", "a", "r", "e", " ", "n", "o", "t", " ", "l", "o", "a", "d", "e", "d", ".", "\n">>

\* zpool list -H -o name,size,alloc,free,cap
Out_Usage == <<"t", "a", "n", "k", "\t", "1", "0", "T", "\t", "8", ".", "5", "T", "\t", "1", ".", "5", "T", "\t", "8", "5", "%", "\n">>

\* zpool status: tank without errors
Out_StatusClean == <<" ", " ", "p", "o", "o", "l", ":", " ", "t", "a", "n", "k", "\n", " ", "s", "t", "a", "t", "e", ":", " ", "O", "N", "L", "I", "N", "E", "\n", " ", " ", "s", "c", "a", "n", ":", " ", "s", "c", "r", "u", "b", " ", "r", "e", "p", "a", "i", "r", "e", "d", " ", "0", "B", " ", "w", "i", "t", "h", " ", "0", " ", "e", "r", "r", "o", "r", "s", " ", "o", "n", " ", "S", "u", "n", " ", "J", "a", "n", " ", "2", "6", " ", "0", "3", ":", "1", "0", ":", "0", "0", " ", "2", "0", "2", "5", "\n", "c", "o", "n", "f", "i", "g", ":", "\n", "\t", "N", "A", "M", "E", " ", "S", "T", "A", "T", "E", " ", "R", "E", "A", "D", " ", "W", "R", "I", "T", "E", " ", "C", "K", "S", "U", "M", "\n", "\t", "t", "a", "n", "k", " ", "O", "N", "L", "I", "N", "E", " ", "0", " ", "0", " ", "0", "\n", "\t", " ", " ", "s", "d", "a", " ", "O", "N", "L", "I", "N", "E", " ", "0", " ", "0", " ", "0", "\n", "e", "r", "r", "o", "r", "s", ":", " ", "N", "o", " ", "k", "n", "o", "w", "n", " ", "d", "a", "t", "a", " ", "e", "r", "r", "o", "r", "s", "\n">>

\* zpool status: tank, and a pool data imported since the listing, with errors
Out_StatusTwoPools == <<" ", " ", "p", "o", "o", "l", ":", " ", "t", "a", "n", "k", "\n", " ", "s", "t", "a", "t", "e", ":", " ", "O", "N", "L", "I", "N", "E", "\n", " ", " ", "s", "c", "a", "n", ":", " ", "s", "c", "r", "u", "b", " ", "r", "e", "p", "a", "i", "r", "e", "d", " ", "0", "B", " ", "w", "i", "t", "h", " ", "0", " ", "e", "r", "r", "o", "r", "s", " ", "o", "n", " ", "S", "u", "n", " ", "J", "a", "n", " ", "2", "6", " ", "0", "3", ":", "1", "0", ":", "0", "0", " ", "2", "0", "2", "5", "\n", "c", "o", "n", "f", "i", "g", ":", "\n", "\t", "N", "A", "M", "E", " ", "S", "T", "A", "T", "E", " ", "R", "E", "A", "D", " ", "W", "R", "I", "T", "E", " ", "C", "K", "S", "U", "M", "\n", "\t", "t", "a", "n", "k", " ", "O", "N", "L", "I", "N", "E", " ", "0", " ", "0", " ", "0", "\n", "\t", " ", " ", "s", "d", "a", " ", "O", "N", "L", "I", "N", "E", " ", "0", " ", "0", " ", "0", "\n", "e", "r", "r", "o", "r", "s", ":", " ", "N", "o", " ", "k", "n", "o", "w", "n", " ", "d", "a", "t", "a", " ", "e", "r", "r", "o", "r", "s", "\n", "\n", " ", " ", "p", "o", "o", "l", ":", " ", "d", "a", "t", "a", "\n", " ", "s", "t", "a", "t", "e", ":", " ", "O", "N", "L", "I", "N", "E", "\n", " ", " ", "s", "c", "a", "n", ":", " ", "s", "c", "r", "u", "b", " ", "r", "e", "p", "a", "i", "r", "e", "d", " ", "0", "B", " ", "w", "i", "t", "h", " ", "0", " ", "e", "r", "r", "o", "r", "s", " ", "o", "n", " ", "S", "u", "n", " ", "J", "a", "n", " ", "2", "6", " ", "0", "3", ":", "1", "0", ":", "0", "0", " ", "2", "0", "2", "5", "\n", "c", "o", "n", "f", "i", "g", ":", "\n", "\t", "N", "A", "M", "E", " ", "S", "T", "A", "T", "E", " ", "R", "E", "A", "D", " ", "W", "R", "I", "T", "E", " ", "C", "K", "S", "U", "M", "\n", "\t", "d", "a", "t", "a", " ", "O", "N", "L", "I", "N", "E", " ", "0", " ", "2", " ", "1", "\n", "\t", " ", " ", "s", "d", "a", " ", "O", "N", "L", "I", "N", "E", " ", "0", " ", "0", " ", "0", "\n", "e", "r", "r", "o", "r", "s", ":", " ", "N", "o", " ", "k", "n", "o", "w", "n", " ", "d", "a", "t", "a", " ", "e", "r", "r", "o", "r", "s", "\n">>

\* zpool list -H -o name
Out_NamesTank == <<"t", "a", "n", "k", "\n">>

\* zpool list -H -o name, two pools
Out_NamesTankData == <<"t", "a", "n", "k", "\n", "d", "a", "t", "a", "\n">>

\* zpool status tank: last scrub on 2024-12-15
Out_StatusTankOld == <<" ", " ", "p", "o", "o", "l", ":", " ", "t", "a", "n", "k", "\n", " ", "s", "t", "a", "t", "e", ":", " ", "O", "N", "L", "I", "N", "E", "\n", " ", " ", "s", "c", "a", "n", ":", " ", "s", "c", "r", "u", "b", " ", "r", "e", "p", "a", "i", "r", "e", "d", " ", "0", "B", " ", "w", "i", "t", "h", " ", "0", " ", "e", "r", "r", "o", "r", "s", " ", "o", "n", " ", "S", "u", "n", " ", "D", "e", "c", " ", "1", "5", " ", "1", "4", ":", "3", "0", ":", "2", "5", " ", "2", "0", "2", "4", "\n", "c", "o", "n", "f", "i", "g", ":", "\n", "\t", "N", "A", "M", "E", " ", "S", "T", "A", "T", "E", " ", "R", "E", "A", "D", " ", "W", "R", "I", "T", "E", " ", "C", "K", "S", "U", "M", "\n", "\t", "t", "a", "n", "k", " ", "O", "N", "L", "I", "N", "E", " ", "0", " ", "0", " ", "0", "\n", "\t", " ", " ", "s", "d", "a", " ", "O", "N", "L", "I", "N", "E", " ", "0", " ", "0", " ", "0", "\n", "e", "r", "r", "o", "r", "s", ":", " ", "N", "o", " ", "k", "n", "o", "w", "n", " ", "d", "a", "t", "a", " ", "e", "r", "r", "o", "r", "s", "\n">>

\* zpool status tank: last scrub on 2025-01-26
Out_StatusTankRecent == <<" ", " ", "p", "o", "o", "l", ":", " ", "t", "a", "n", "k", "\n", " ", "s", "t", "a", "t", "e", ":", " ", "O", "N", "L", "I", "N", "E", "\n", " ", " ", "s", "c", "a", "n", ":", " ", "s", "c", "r", "u", "b", " ", "r", "e", "p", "a", "i", "r", "e", "d", " ", "0", "B", " ", "w", "i", "t", "h", " ", "0", " ", "e", "r", "r", "o", "r", "s", " ", "o", "n", " ", "S", "u", "n", " ", "J", "a", "n", " ", "2", "6", " ", "0", "3", ":", "1", "0", ":", "0", "0", " ", "2", "0", "2", "5", "\n", "c", "o", "n", "f", "i", "g", ":", "\n", "\t", "N", "A", "M", "E", " ", "S", "T", "A", "T", "E", " ", "R", "E", "A", "D", " ", "W", "R", "I", "T", "E", " ", "C", "K", "S", "U", "M", "\n", "\t", "t", "a", "n", "k", " ", "O", "N", "L", "I", "N", "E", " ", "0", " ", "0", " ", "0", "\n", "\t", " ", " ", "s", "d", "a", " ", "O", "N", "L", "I", "N", "E", " ", "0", " ", "0", " ", "0", "\n", "e", "r", "r", "o", "r", "s", ":", " ", "N", "o", " ", "k", "n", "o", "w", "n", " ", "d", "a", "t", "a", " ", "e", "r", "r", "o", "r", "s", "\n">>

\* zpool status data: last scrub on 2024-12-15
Out_StatusDataOld == <<" ", " ", "p", "o", "o", "l", ":", " ", "d", "a", "t", "a", "\n", " ", "s", "t", "a", "t", "e", ":", " ", "O", "N", "L", "I", "N", "E", "\n", " ", " ", "s", "c", "a", "n", ":", " ", "s", "c", "r", "u", "b", " ", "r", "e", "p", "a", "i", "r", "e", "d", " ", "0", "B", " ", "w", "i", "t", "h", " ", "0", " ", "e", "r", "r", "o", "r", "s", " ", "o", "n", " ", "S", "u", "n", " ", "D", "e", "c", " ", "1", "5", " ", "1", "4", ":", "3", "0", ":", "2", "5", " ", "2", "0", "2", "4", "\n", "c", "o", "n", "f", "i", "g", ":", "\n", "\t", "N", "A", "M", "E", " ", "S", "T", "A", "T", "E", " ", "R", "E", "A", "D", " ", "W", "R", "I", "T", "E", " ", "C", "K", "S", "U", "M", "\n", "\t", "d", "a", "t", "a", " ", "O", "N", "L", "I", "N", "E", " ", "0", " ", "2", " ", "1", "\n", "\t", " ", " ", "s", "d", "a", " ", "O", "N", "L", "I", "N", "E", " ", "0", " ", "0", " ", "0", "\n", "e", "r", "r", "o", "r", "s", ":", " ", "N", "o", " ", "k", "n", "o", "w", "n", " ", "d", "a", "t", "a", " ", "e", "r", "r", "o", "r", "s", "\n">>

\* stderr of zpool status <pool> for a pool that is gone
Err_NoSuchPool == <<"c", "a", "n", "n", "o", "t", " ", "o", "p", "e", "n", " ", "p", "o", "o", "l", ":", " ", "n", "o", " ", "s", "u", "c", "h", " ", "p", "o", "o", "l", "\n">>

\* pool names of the sample host
S_tank == <<"t", "a", "n", "k">>

S_data == <<"d", "a", "t", "a">>

HealthResults ==
    {Exited(0, Out_HealthOnline, <<>>), Exited(0, Out_HealthDegraded, <<>>),
     Exited(0, Out_NoPools, <<>>), Exited(1, <<>>, Err_NoModule)}

UsageResults == {Exited(0, Out_Usage, <<>>), Exited(1, <<>>, Err_NoModule)}

StatusResults ==
    {Exited(0, Out_StatusClean, <<>>), Exited(0, Out_StatusTwoPools, <<>>),
     Exited(1, <<>>, Err_NoModule)}

NamesResults ==
    {Exited(0, Out_NamesTank, <<>>), Exited(0, Out_NamesTankData, <<>>),
     Exited(1, <<>>, Err_NoModule)}

StatusPoolResults(pool) ==
    IF pool = S_tank
    THEN {Exited(0, Out_StatusTankOld, <<>>), Exited(0, Out_StatusTankRecent, <<>>)}
    ELSE IF pool = S_data THEN {Exited(0, Out_StatusDataOld, <<>>)}
    ELSE {Exited(1, <<>>, Err_NoSuchPool)}

\* datetime.now() of the sample run
SampleNow == DateTime(2025, 1, 29, 16, 0, 0)

\* the defaults of the alert thresholds
DefaultCapacityWarning == 80
DefaultCapacityCritical == 90
DefaultScrubWarningDays == 30
DefaultScrubCriticalDays == 90
DefaultErrorWarning == 1
DefaultErrorCritical == 10

DefaultThresholds ==
    [capacity_warning    |-> DefaultCapacityWarning,
     capacity_critical   |-> DefaultCapacityCritical,
     scrub_warning_days  |-> DefaultScrubWarningDays,
     scrub_critical_days |-> DefaultScrubCriticalDays,
     error_warning       |-> DefaultErrorWarning,
     error_critical      |-> DefaultErrorCritical]

-----------------------------------------------------------------------------
(* One run of run_report, step by step.                                     *)

\* the calls of send_email that sit inside its try block, in order
TransportOps == <<"connect", "starttls", "login", "send_message", "quit">>

Invoke(cmd, result) == calls' = Append(calls, [cmd |-> cmd, result |-> result])

\* print("Generating ZFS report..."), then generate_report begins
Start ==
    /\ pc = "start"
    /\ console' = Append(console, "Generating ZFS report...")
    /\ pc' = "g_health"
    /\ UNCHANGED <<cfg, now, pool_health, pool_usage, pool_errors, scrub_status, pool_names,
                   report, subject, smtp, calls, input, output>>

\* pool_health = self.get_pool_health(), in generate_report and again in run_report
GetPoolHealth ==
    /\ pc \in {"g_health", "r_health"}
    /\ \E result \in HealthResults :
          LET text == run_zfs_command(CmdListHealth, result)
          IN  /\ Invoke(CmdListHealth, result)
              /\ IF text = Raised
                 THEN pc' = "crashed" /\ UNCHANGED pool_health
                 ELSE /\ pool_health' = get_pool_health(text)
                      /\ pc' = IF pc = "g_health" THEN "g_usage" ELSE "r_errors"
    /\ UNCHANGED <<cfg, now, pool_usage, pool_errors, scrub_status, pool_names,
                   report, subject, smtp, console, input, output>>

\* pool_usage = self.get_pool_usage(), in generate_report only
GetPoolUsage ==
    /\ pc = "g_usage"
    /\ \E result \in UsageResults :
          LET text == run_zfs_command(CmdListUsage, result)
          IN  /\ Invoke(CmdListUsage, result)
              /\ IF text = Raised
                 THEN pc' = "crashed" /\ UNCHANGED pool_usage
                 ELSE pool_usage' = get_pool_usage(text) /\ pc' = "g_errors"
    /\ UNCHANGED <<cfg, now, pool_health, pool_errors, scrub_status, pool_names,
                   report, subject, smtp, console, input, output>>

\* pool_errors = self.get_pool_errors(), in generate_report and again in run_report
GetPoolErrors ==
    /\ pc \in {"g_errors", "r_errors"}
    /\ \E result \in StatusResults :
          LET text == run_zfs_command(CmdStatus, result)
          IN  /\ Invoke(CmdStatus, result)
              /\ IF text = Raised
                 THEN pc' = "crashed" /\ UNCHANGED pool_errors
                 ELSE /\ pool_errors' = get_pool_errors(text)
                      /\ pc' = IF pc = "g_errors" THEN "g_names" ELSE "r_names"
    /\ UNCHANGED <<cfg, now, pool_health, pool_usage, scrub_status, pool_names,
                   report, subject, smtp, console, input, output>>

\* get_scrub_status, its first command: the names to loop over
ListPoolNames ==
    /\ pc \in {"g_names", "r_names"}
    /\ \E result \in NamesResults :
          LET text == run_zfs_command(CmdListNames, result)
          IN  /\ Invoke(CmdListNames, result)
              /\ IF text = Raised
                 THEN pc' = "crashed" /\ UNCHANGED <<pool_names, scrub_status>>
                 ELSE /\ pool_names' = Split(text, "\n")
                      /\ scrub_status' = EmptyDict
                      /\ pc' = IF pc = "g_names" THEN "g_scrub" ELSE "r_scrub"
    /\ UNCHANGED <<cfg, now, pool_health, pool_usage, pool_errors,
                   report, subject, smtp, console, input, output>>

\* get_scrub_status, one iteration of its loop for a non-blank name
ScrubStatusPool ==
    /\ pc \in {"g_scrub", "r_scrub"}
    /\ pool_names # <<>>
    /\ Strip(Head(pool_names)) # <<>>
    /\ LET pool == Strip(Head(pool_names))
       IN  \E result \in StatusPoolResults(pool) :
              LET text == run_zfs_command(CmdStatusPool(pool), result)
              IN  /\ Invoke(CmdStatusPool(pool), result)
                  /\ IF text = Raised
                     THEN pc' = "crashed" /\ UNCHANGED <<pool_names, scrub_status>>
                     ELSE /\ scrub_status' = Put(scrub_status, pool, ScrubData(text, now))
                          /\ pool_names' = Tail(pool_names)
                          /\ pc' = pc
    /\ UNCHANGED <<cfg, now, pool_health, pool_usage, pool_errors,
                   report, subject, smtp, console, input, output>>

\* get_scrub_status, one iteration of its loop for a blank name: nothing is run
SkipBlankName ==
    /\ pc \in {"g_scrub", "r_scrub"}
    /\ pool_names # <<>>
    /\ Strip(Head(pool_names)) = <<>>
    /\ pool_names' = Tail(pool_names)
    /\ UNCHANGED <<pc, cfg, now, pool_health, pool_usage, pool_errors, scrub_status,
                   report, subject, smtp, console, calls, input, output>>

\* run_report without its own queries: the subject would come right after generate_report
AfterRenderNoRequery == "r_scrub"

\* where run_report continues once generate_report has returned: with its own queries
AfterRender == "r_health"

\* send_email with the connection made before the try block
CaughtAfterConnect(op) == op \in Range(TransportOps) \ {"connect"}

\* the calls of send_email an exception of which is caught (and printed)
Caught(op) == op \in Range(TransportOps)

\* generate_report after its four queries: the rows, the table, the summary
Render ==
    /\ pc = "g_scrub"
    /\ pool_names = <<>>
    /\ IF ErrorsParse(pool_errors)
       THEN /\ report' = BuildReport(pool_health, pool_usage, pool_errors, scrub_status, cfg)
            /\ pc' = AfterRender
       ELSE pc' = "crashed" /\ UNCHANGED report
    /\ UNCHANGED <<cfg, now, pool_health, pool_usage, pool_errors, scrub_status, pool_names,
                   subject, smtp, console, calls, input, output>>

\* run_report after its own three queries: the subject, then print("Sending email...")
Subject ==
    /\ pc = "r_scrub"
    /\ pool_names = <<>>
    /\ IF ErrorsParse(pool_errors)
       THEN /\ subject' = ChooseSubject(pool_health, pool_errors, scrub_status, cfg)
            /\ console' = Append(console, "Sending email...")
            /\ pc' = "connect"
       ELSE pc' = "crashed" /\ UNCHANGED <<subject, console>>
    /\ UNCHANGED <<cfg, now, pool_health, pool_usage, pool_errors, scrub_status, pool_names,
                   report, smtp, calls, input, output>>

NextOp(op) == IF op = "quit" THEN "print" ELSE TransportOps[IndexIn(op, TransportOps) + 1]

\* send_email: one call on the transport, which succeeds or raises
Transport ==
    /\ pc \in Range(TransportOps)
    /\ \E ok \in BOOLEAN :
          /\ smtp' = Append(smtp, [op |-> pc, ok |-> ok])
          /\ IF ok
             THEN /\ pc' = NextOp(pc)
                  /\ console' = IF pc = "quit" THEN Append(console, "Email sent successfully!")
                                ELSE console
             ELSE IF Caught(pc)
             THEN pc' = "print" /\ console' = Append(console, "Failed to send email")
             ELSE pc' = "crashed" /\ UNCHANGED console
    /\ UNCHANGED <<cfg, now, pool_health, pool_usage, pool_errors, scrub_status, pool_names,
                   report, subject, calls, input, output>>

\* run_report's last prints: the report preview
PrintReport ==
    /\ pc = "print"
    /\ console' = Append(console, "REPORT PREVIEW")
    /\ pc' = "done"
    /\ UNCHANGED <<cfg, now, pool_health, pool_usage, pool_errors, scrub_status, pool_names,
                   report, subject, smtp, calls, input, output>>

Init ==
    /\ pc = "start"
    /\ cfg = DefaultThresholds
    /\ now = SampleNow
    /\ pool_health = EmptyDict
    /\ pool_usage = EmptyDict
    /\ pool_errors = EmptyDict
    /\ scrub_status = EmptyDict
    /\ pool_names = <<>>
    /\ report = NoReport
    /\ subject = NoSubject
    /\ smtp = <<>>
    /\ console = <<>>
    /\ calls = <<>>
    /\ input = <<>>
    /\ output = <<>>

Next ==
    \/ Start
    \/ GetPoolHealth
    \/ GetPoolUsage
    \/ GetPoolErrors
    \/ ListPoolNames
    \/ ScrubStatusPool
    \/ SkipBlankName
    \/ Render
    \/ Subject
    \/ Transport
    \/ PrintReport

Spec == Init /\ [][Next]_vars

-----------------------------------------------------------------------------
(* The report logic on its own: generate_report's rendering and run_report's *)
(* subject, applied to the maps the parsers may return.                     *)

\* the pools maps are drawn for; MaxPools of them may appear in one map
PoolPool == <<S_tank, S_data, <<"b", "a", "k">> >>

MaxPools == 2

PoolSet == {PoolPool[i] : i \in 1..MaxPools}

Digits(n) == IntStr(n)

ErrorChoices ==
    {ZeroErrors,
     [read |-> Digits(1), write |-> S_0, cksum |-> S_0],
     [read |-> S_0, write |-> Digits(7), cksum |-> Digits(3)],
     [read |-> S_0, write |-> S_0, cksum |-> Digits(11)]}

\* days_ago is 'N/A' or str() of an integer; a scrub dated after now() gives a negative one
AgeChoices(c) ==
    {S_NA, IntStr(-1), IntStr(0),
     IntStr(c.scrub_warning_days), IntStr(c.scrub_warning_days + 1),
     IntStr(c.scrub_critical_days), IntStr(c.scrub_critical_days + 1)}

ScrubChoices(c) == {[status |-> S_NoScrubInfo, last_scrub |-> S_Never, days_ago |-> a] : a \in AgeChoices(c)}

Percent(n) == IntStr(n) \o <<"%">>

CapacityChoices(c) ==
    {S_NA, <<"-">>, IntStr(c.capacity_critical),
     Percent(0), Percent(c.capacity_warning - 1), Percent(c.capacity_warning),
     Percent(c.capacity_warning + 1), Percent(c.capacity_critical - 1),
     Percent(c.capacity_critical), Percent(c.capacity_critical + 1), Percent(100)}

UsageChoices(c) == {[size |-> S_NA, allocated |-> S_NA, free |-> S_NA, capacity |-> x] : x \in CapacityChoices(c)}

HealthChoices == {S_ONLINE, <<"D", "E", "G", "R", "A", "D", "E", "D">>, <<"F", "A", "U", "L", "T", "E", "D">>}

\* thresholds as a configuration file may set them (warning levels not above critical ones)
ThresholdChoices ==
    {DefaultThresholds,
     [DefaultThresholds EXCEPT !.capacity_warning = DefaultCapacityCritical],
     [DefaultThresholds EXCEPT !.scrub_warning_days = 0, !.error_critical = 0],
     [DefaultThresholds EXCEPT !.scrub_warning_days = DefaultScrubCriticalDays, !.error_critical = 1]}

\* every dict with keys among S and values among V
Dicts(S, V) == UNION {[K -> V] : K \in SUBSET S}

Idle ==
    /\ now = SampleNow
    /\ pool_names = <<>>
    /\ report = NoReport
    /\ subject = NoSubject
    /\ smtp = <<>>
    /\ console = <<>>
    /\ calls = <<>>
    /\ input = <<>>
    /\ output = <<>>

\* generate_report about to render one pool's row, for every record the parsers may give it
InitRender ==
    /\ pc = "g_scrub"
    /\ cfg \in ThresholdChoices
    /\ pool_health \in [{S_tank} -> HealthChoices]
    /\ pool_usage \in Dicts({S_tank}, UsageChoices(cfg))
    /\ pool_errors \in Dicts({S_tank}, ErrorChoices)
    /\ scrub_status \in Dicts({S_tank}, ScrubChoices(cfg))
    /\ Idle

NextRender == Render

SpecRender == InitRender /\ [][NextRender]_vars

SubjectAges(c) == {S_NA, IntStr(c.scrub_warning_days), IntStr(c.scrub_warning_days + 1)}

\* run_report about to choose the subject, for every set of pool records
InitSubject ==
    /\ pc = "r_scrub"
    /\ cfg \in {DefaultThresholds, [DefaultThresholds EXCEPT !.scrub_warning_days = 0]}
    /\ pool_health \in Dicts(PoolSet, {S_ONLINE, <<"D", "E", "G", "R", "A", "D", "E", "D">>})
    /\ pool_usage = EmptyDict
    /\ pool_errors \in Dicts(PoolSet, {ZeroErrors, [read |-> S_0, write |-> Digits(2), cksum |-> Digits(1)]})
    /\ scrub_status \in Dicts(PoolSet, {[status |-> S_NoScrubInfo, last_scrub |-> S_Never, days_ago |-> a] :
                                            a \in SubjectAges(cfg)})
    /\ Idle

NextSubject == Subject

SpecSubject == InitSubject /\ [][NextSubject]_vars

-----------------------------------------------------------------------------
(* Properties of the report logic.                                          *)

\* the integer a days_ago string other than 'N/A' stands for
SignedInt(s) == IF s[1] = "-" THEN 0 - ParseInt(Tail(s)) ELSE ParseInt(s)

Rendered == pc = "r_health" /\ report # NoReport

ShownErrors(row) == ParseInt(row.read_err) + ParseInt(row.write_err) + ParseInt(row.cksum_err)

RowAllClear(p) ==
    LET age == Get(scrub_status, p, NoScrub).days_ago
    IN  /\ pool_health[p] = S_ONLINE
        /\ ShownErrors(report.rows[p]) = 0
        /\ (age = S_NA \/ SignedInt(age) <= cfg.scrub_warning_days)

RowCritical(p) ==
    /\ ~RowAllClear(p)
    /\ (pool_health[p] # S_ONLINE \/ ShownErrors(report.rows[p]) > cfg.error_critical)

\* C1: every row's overall status is all-clear exactly when the pool is ONLINE, shows no
\* errors and its scrub age is unknown or at most scrub_warning_days; critical exactly when
\* it is not all-clear and the pool is not ONLINE or shows more than error_critical errors;
\* warning otherwise.  A pool that is not ONLINE is always critical.
C1_OverallStatus ==
    Rendered =>
        \A p \in DOMAIN report.rows :
            /\ report.rows[p].status =
                   (IF RowAllClear(p) THEN CheckMark
                    ELSE IF RowCritical(p) THEN CrossMark ELSE WarnMark)
            /\ (pool_health[p] # S_ONLINE => report.rows[p].status = CrossMark)

\* a pool that is not ONLINE, without errors and without a known scrub age, shown critical
C1_Witness ==
    /\ Rendered
    /\ \E p \in DOMAIN report.rows :
          /\ pool_health[p] # S_ONLINE
          /\ ShownErrors(report.rows[p]) = 0
          /\ Get(scrub_status, p, NoScrub).days_ago = S_NA
          /\ report.rows[p].status = CrossMark

ParsesAsPercent(capacity) == capacity # S_NA /\ IsDigit(RStripChar(capacity, "%"))

PercentOf(capacity) == ParseInt(RStripChar(capacity, "%"))

\* C3: for a capacity that parses as a percentage p, the capacity cell carries the critical
\* marker exactly when p >= capacity_critical, the warning marker exactly when
\* capacity_warning <= p < capacity_critical, and no marker exactly when p < capacity_warning.
C3_CapacityMarker ==
    Rendered =>
        \A pool \in DOMAIN report.rows :
            LET capacity == Get(pool_usage, pool, NoUsage).capacity
                cell == report.rows[pool].capacity
                p == PercentOf(capacity)
            IN  ParsesAsPercent(capacity) =>
                    /\ (cell = capacity \o <<" ", CrossMark>>) <=> (p >= cfg.capacity_critical)
                    /\ (cell = capacity \o <<" ", WarnMark>>)
                           <=> (cfg.capacity_warning <= p /\ p < cfg.capacity_critical)
                    /\ (cell = capacity) <=> (p < cfg.capacity_warning)

\* a pool at exactly capacity_critical, marked critical
C3_Witness ==
    /\ Rendered
    /\ \E pool \in DOMAIN report.rows :
          LET capacity == Get(pool_usage, pool, NoUsage).capacity
          IN  /\ ParsesAsPercent(capacity)
              /\ PercentOf(capacity) = cfg.capacity_critical
              /\ cfg.capacity_warning < cfg.capacity_critical
              /\ report.rows[pool].capacity = capacity \o <<" ", CrossMark>>

SubjectChosen == pc = "connect" /\ subject # NoSubject

SomeNotOnline == \E p \in DOMAIN pool_health : pool_health[p] # S_ONLINE

SomeErrors ==
    \E p \in DOMAIN pool_errors :
        \E k \in {"read", "write", "cksum"} : ParseInt(pool_errors[p][k]) # 0

SomeStaleScrub ==
    \E p \in DOMAIN scrub_status :
        /\ scrub_status[p].days_ago # S_NA
        /\ SignedInt(scrub_status[p].days_ago) > cfg.scrub_warning_days

\* C2: the subject is the all-healthy one when every pool is ONLINE, no error is counted and
\* no scrub age exceeds scrub_warning_days; otherwise the unhealthy-count one when a pool is
\* not ONLINE; otherwise the error-count one when errors are counted; otherwise the scrub-due
\* one when a scrub is stale; otherwise the generic success one.
C2_SubjectPriority ==
    SubjectChosen =>
        subject.kind =
            (IF ~SomeNotOnline /\ ~SomeErrors /\ ~SomeStaleScrub THEN "all_pools_healthy"
             ELSE IF SomeNotOnline THEN "pools_unhealthy"
             ELSE IF SomeErrors THEN "errors_detected"
             ELSE IF SomeStaleScrub THEN "need_scrubbing"
             ELSE "all_systems_normal")

\* a pool that is not ONLINE, with errors counted and a stale scrub: the unhealthy subject
C2_Witness ==
    /\ SubjectChosen
    /\ SomeNotOnline /\ SomeErrors /\ SomeStaleScrub
    /\ subject.kind = "pools_unhealthy"
    /\ subject.icon = CrossMark

-----------------------------------------------------------------------------
(* Properties of one run of run_report.                                     *)

CmdSeq == [i \in DOMAIN calls |-> calls[i].cmd]

CallsOf(cmd) == Cardinality({i \in DOMAIN calls : calls[i].cmd = cmd})

AfterQueries == {"connect", "starttls", "login", "send_message", "quit", "print", "done"}

ReportPrinted == \E i \in DOMAIN console : console[i] = "REPORT PREVIEW"

EmailFailed == \E i \in DOMAIN smtp : ~smtp[i].ok

\* the 'zpool status <pool>' commands one pass of get_scrub_status runs after a name
\* listing with the given outcome: one per non-blank line of the text it got, in order
RECURSIVE PoolCommands(_)
PoolCommands(lines) ==
    IF lines = <<>> THEN <<>>
    ELSE IF Strip(Head(lines)) = <<>> THEN PoolCommands(Tail(lines))
    ELSE <<CmdStatusPool(Strip(Head(lines)))>> \o PoolCommands(Tail(lines))

PoolCommandsAfter(i) ==
    IF i \in DOMAIN calls /\ calls[i].cmd = CmdListNames
    THEN PoolCommands(Split(run_zfs_command(CmdListNames, calls[i].result), "\n"))
    ELSE <<>>

\* the commands of generate_report's four queries, given where its name listing sits
FirstPass == <<CmdListHealth, CmdListUsage, CmdStatus, CmdListNames>> \o PoolCommandsAfter(4)

SecondPass ==
    <<CmdListHealth, CmdStatus, CmdListNames>> \o PoolCommandsAfter(Len(FirstPass) + 3)

\* C7 as stated: the four queries each run once, all before the report is rendered; once it
\* is rendered no external command is invoked any more; the email comes after the rendering
\* and the print after the email; every command shape is attempted once per run.
C7_StrictlyLinear ==
    /\ report # NoReport => CmdSeq = FirstPass
    /\ \A i \in DOMAIN calls : CallsOf(calls[i].cmd) = 1
    /\ smtp # <<>> => report # NoReport
    /\ ReportPrinted => smtp # <<>>

\* C7 amended: generate_report runs the four queries once each (scrub status once per listed
\* pool) and renders right after; run_report then runs the health, status and name-listing
\* commands and the per-pool scrub status a second time, the usage listing not; only then is
\* the email attempted, and the report is printed after the email.
C7_TwoPasses ==
    /\ report = NoReport => pc \in {"start", "g_health", "g_usage", "g_errors", "g_names", "g_scrub"}
    /\ pc = "r_health" => report # NoReport /\ CmdSeq = FirstPass
    /\ pc \in AfterQueries =>
          /\ CmdSeq = FirstPass \o SecondPass
          /\ CallsOf(CmdListHealth) = 2 /\ CallsOf(CmdStatus) = 2 /\ CallsOf(CmdListNames) = 2
          /\ CallsOf(CmdListUsage) = 1
    /\ smtp # <<>> => pc \in AfterQueries /\ subject # NoSubject
    /\ ReportPrinted => pc = "done" /\ smtp # <<>>

\* a finished run that queried two pools in each pass
C7_Witness ==
    /\ pc = "done"
    /\ ReportPrinted
    /\ Len(FirstPass) = 6
    /\ Len(SecondPass) = 5
    /\ CallsOf(CmdStatusPool(S_data)) = 2

RowAge(row) == SplitWhitespace(row.days_ago)[1]

RowIsStale(row) == IsDigit(RowAge(row)) /\ ParseInt(RowAge(row)) > cfg.scrub_warning_days

RECURSIVE ShownErrorsOver(_, _)
ShownErrorsOver(rows, keys) ==
    IF keys = {} THEN 0
    ELSE LET k == CHOOSE x \in keys : TRUE
         IN  ShownErrors(rows[k]) + ShownErrorsOver(rows, keys \ {k})

\* C8: the summary agrees with the table: its total error count is the sum of the counts
\* shown in the rows, and its count of pools needing scrubbing is the number of rows whose
\* scrub age exceeds scrub_warning_days.
C8_SummaryMatchesRows ==
    report # NoReport =>
        /\ report.total_errors = ShownErrorsOver(report.rows, DOMAIN report.rows)
        /\ report.old_scrubs = Cardinality({p \in DOMAIN report.rows : RowIsStale(report.rows[p])})

SuccessKinds == {"all_pools_healthy", "all_systems_normal"}

\* the k-th health listing of the run failed, or gave no pool line
HealthListingEmpty(k) ==
    \E i \in DOMAIN calls :
        /\ calls[i].cmd = CmdListHealth
        /\ Cardinality({j \in 1..i : calls[j].cmd = CmdListHealth}) = k
        /\ \/ calls[i].result.returncode # 0
           \/ get_pool_health(run_zfs_command(CmdListHealth, calls[i].result)) = EmptyDict

\* C10: when the health listing failed or listed no pool, the report does not close with the
\* all-clear line and the subject is not a success subject.
C10_NoSuccessWithoutEvidence ==
    /\ (report # NoReport /\ HealthListingEmpty(1)) => ~report.all_clear
    /\ (subject # NoSubject /\ HealthListingEmpty(2)) => subject.kind \notin SuccessKinds

\* the positions of a run, in program order
PcOrder ==
    <<"start", "g_health", "g_usage", "g_errors", "g_names", "g_scrub",
      "r_health", "r_errors", "r_names", "r_scrub",
      "connect", "starttls", "login", "send_message", "quit", "print", "done">>

Position(p) == IF p \in Range(PcOrder) THEN IndexIn(p, PcOrder) ELSE 0

\* a step moves the run forward: to a later position, or to the next name of the loop
Advances ==
    \/ Position(pc') > Position(pc)
    \/ Position(pc') = Position(pc) /\ Position(pc) # 0 /\ Len(pool_names') < Len(pool_names)

\* the run has not ended with a traceback
Running == pc \in Range(PcOrder)

\* a step is possible (the guards of the actions, position by position)
CanStep ==
    \/ pc \in {"start", "g_health", "r_health", "g_usage", "g_errors", "r_errors",
               "g_names", "r_names", "print"}
    \/ pc \in Range(TransportOps)
    \/ pc \in {"g_scrub", "r_scrub"} /\
          (pool_names = <<>> \/ Strip(Head(pool_names)) = <<>>
               \/ StatusPoolResults(Strip(Head(pool_names))) # {})

CommandFailed ==
    /\ Len(calls') = Len(calls) + 1
    /\ calls'[Len(calls')].result.returncode # 0

-----------------------------------------------------------------------------
(* The two status parsers on their own, over status texts built from lines. *)

\* the head of a pool's block in 'zpool status', up to its summary line
L_PoolLabel == <<" ", " ", "p", "o", "o", "l", ":", " ">>

L_BlockHead == <<"\n", " ", "s", "t", "a", "t", "e", ":", " ", "O", "N", "L", "I", "N", "E", "\n", "c", "o", "n", "f", "i", "g", ":", "\n", "\t", "N", "A", "M", "E", " ", "S", "T", "A", "T", "E", " ", "R", "E", "A", "D", " ", "W", "R", "I", "T", "E", " ", "C", "K", "S", "U", "M", "\n", "\t">>

L_Online == <<" ", "O", "N", "L", "I", "N", "E", " ">>

\* lines that may follow the summary line inside the block
L_Device == <<"\t", " ", " ", "s", "d", "a", " ", "O", "N", "L", "I", "N", "E", " ", "0", " ", "0", " ", "0">>

L_DeviceOfPool == <<"\t", " ", " ", "t", "a", "n", "k", "-", "l", "o", "g", " ", "O", "N", "L", "I", "N", "E", " ", "0", " ", "0", " ", "7">>

L_NoKnownErrors == <<"e", "r", "r", "o", "r", "s", ":", " ", "N", "o", " ", "k", "n", "o", "w", "n", " ", "d", "a", "t", "a", " ", "e", "r", "r", "o", "r", "s">>

L_Blank == <<>>

\* count tokens of a summary line: numbers, a dash, an abbreviated count
T_3 == <<"3">>

T_Dash == <<"-">>

T_1K == <<"1", "K">>

\* scrub lines of 'zpool status <pool>'
L_ScanDated == <<" ", " ", "s", "c", "a", "n", ":", " ", "s", "c", "r", "u", "b", " ", "r", "e", "p", "a", "i", "r", "e", "d", " ", "0", "B", " ", "w", "i", "t", "h", " ", "0", " ", "e", "r", "r", "o", "r", "s", " ", "o", "n", " ", "S", "u", "n", " ", "D", "e", "c", " ", "1", "5", " ", "1", "4", ":", "3", "0", ":", "2", "5", " ", "2", "0", "2", "4">>

L_ScanDatedMonday == <<" ", " ", "s", "c", "a", "n", ":", " ", "s", "c", "r", "u", "b", " ", "r", "e", "p", "a", "i", "r", "e", "d", " ", "0", "B", " ", "w", "i", "t", "h", " ", "0", " ", "e", "r", "r", "o", "r", "s", " ", "o", "n", " ", "M", "o", "n", " ", "D", "e", "c", " ", "1", "6", " ", "0", "9", ":", "0", "5", ":", "0", "0", " ", "2", "0", "2", "4">>

L_ScanUndated == <<" ", " ", "s", "c", "a", "n", ":", " ", "s", "c", "r", "u", "b", " ", "r", "e", "p", "a", "i", "r", "e", "d", " ", "0", "B", " ", "i", "n", " ", "0", "0", ":", "1", "0", ":", "0", "0", " ", "w", "i", "t", "h", " ", "0", " ", "e", "r", "r", "o", "r", "s">>

L_ScanNone == <<" ", " ", "s", "c", "a", "n", ":", " ", "n", "o", "n", "e", " ", "r", "e", "q", "u", "e", "s", "t", "e", "d">>

L_ScrubUpper == <<" ", "S", "c", "r", "u", "b", ":", " ", "c", "o", "m", "p", "l", "e", "t", "e", "d", " ", "o", "n", " ", "S", "u", "n", " ", "D", "e", "c", " ", " ", "1", " ", "1", "0", ":", "0", "0", ":", "0", "0", " ", "2", "0", "2", "4">>

\* lines that may follow the scrub line
L_ContDated == <<" ", " ", " ", " ", " ", " ", " ", " ", "o", "n", " ", "S", "u", "n", " ", "D", "e", "c", " ", "1", "5", " ", "1", "4", ":", "3", "0", ":", "2", "5", " ", "2", "0", "2", "4">>

L_ContUndated == <<" ", " ", " ", " ", " ", " ", " ", " ", "1", ".", "2", "T", " ", "s", "c", "a", "n", "n", "e", "d", ",", " ", "1", "0", "%", " ", "d", "o", "n", "e">>

L_Config == <<"c", "o", "n", "f", "i", "g", ":">>

L_ScrubLater == <<" ", " ", "s", "c", "r", "u", "b", ":", " ", "r", "e", "s", "i", "l", "v", "e", "r", "e", "d", " ", "o", "n", " ", "S", "u", "n", " ", "N", "o", "v", " ", "2", "4", " ", "0", "8", ":", "0", "0", ":", "0", "0", " ", "2", "0", "2", "4">>

L_ScrubHead == <<" ", " ", "p", "o", "o", "l", ":", " ", "t", "a", "n", "k", "\n", " ", "s", "t", "a", "t", "e", ":", " ", "O", "N", "L", "I", "N", "E", "\n">>

TailLines == {L_Device, L_DeviceOfPool, L_NoKnownErrors, L_Blank}

MaxTail == 2

Tails == UNION {[1..n -> TailLines] : n \in 0..MaxTail}

CountTokens == {S_0, T_3, T_Dash, T_1K}

\* the text of 'zpool status' for one pool: the block head, the summary line with its three
\* count tokens, then the lines of the tail
ErrorsText(in) ==
    L_PoolLabel \o in.pool \o L_BlockHead \o in.pool \o L_Online
        \o Join(<<in.read, in.write, in.cksum>>, <<" ">>) \o <<"\n">>
        \o Join(in.tail, <<"\n">>) \o <<"\n">>

InitErrors ==
    /\ pc = "parse_errors"
    /\ cfg = DefaultThresholds
    /\ pool_health = EmptyDict
    /\ pool_usage = EmptyDict
    /\ pool_errors = EmptyDict
    /\ scrub_status = EmptyDict
    /\ now = SampleNow
    /\ pool_names = <<>>
    /\ report = NoReport
    /\ subject = NoSubject
    /\ smtp = <<>>
    /\ console = <<>>
    /\ calls = <<>>
    /\ output = <<>>
    /\ \E pool \in {S_tank, S_data}, r \in CountTokens, w \in CountTokens, c \in CountTokens, tail \in Tails :
          input = [pool |-> pool, read |-> r, write |-> w, cksum |-> c, tail |-> tail]

\* get_pool_errors on the text of a 'zpool status' that exited 0
ParseErrors ==
    /\ pc = "parse_errors"
    /\ output' = get_pool_errors(run_zfs_command(CmdStatus, Exited(0, ErrorsText(input), <<>>)))
    /\ pc' = "parsed"
    /\ UNCHANGED <<cfg, now, pool_health, pool_usage, pool_errors, scrub_status, pool_names,
                   report, subject, smtp, console, calls, input>>

NextErrors == ParseErrors

SpecErrors == InitErrors /\ [][NextErrors]_vars

\* C4: the counts returned for the pool are the three integers its summary line ends in,
\* whatever lines follow it in the block; a token that is not a number counts as zero,
\* each of the three on its own.
C4_SummaryLineCounts ==
    pc = "parsed" =>
        /\ input.pool \in DOMAIN output
        /\ output[input.pool] =
               [read  |-> IF IsDigit(input.read) THEN input.read ELSE S_0,
                write |-> IF IsDigit(input.write) THEN input.write ELSE S_0,
                cksum |-> IF IsDigit(input.cksum) THEN input.cksum ELSE S_0]

NoLine == <<"(no line)">>

ScanLines == {L_ScanDated, L_ScanDatedMonday, L_ScanUndated, L_ScanNone, L_ScrubUpper}

NextLines == {NoLine, L_ContDated, L_ContUndated, L_Config}

LaterLines == {NoLine, L_ScrubLater}

Lines(seq) == SelectSeq(seq, LAMBDA l : l # NoLine)

\* the text of 'zpool status tank': the scrub line, the line after it and a later scrub line
ScrubText(in) ==
    L_ScrubHead \o Join(Lines(<<in.scan, in.next, in.later, L_NoKnownErrors>>), <<"\n">>) \o <<"\n">>

InitScrub ==
    /\ pc = "parse_scrub"
    /\ cfg = DefaultThresholds
    /\ pool_health = EmptyDict
    /\ pool_usage = EmptyDict
    /\ pool_errors = EmptyDict
    /\ scrub_status = EmptyDict
    /\ pool_names = <<>>
    /\ report = NoReport
    /\ subject = NoSubject
    /\ smtp = <<>>
    /\ console = <<>>
    /\ calls = <<>>
    /\ output = <<>>
    /\ now \in {SampleNow, DateTime(2024, 12, 15, 14, 30, 24)}
    /\ \E scan \in ScanLines, next \in NextLines, later \in LaterLines :
          input = [scan |-> scan, next |-> next, later |-> later]

\* the body of get_scrub_status's loop on the text of a 'zpool status tank' that exited 0
ParseScrub ==
    /\ pc = "parse_scrub"
    /\ output' = ScrubData(run_zfs_command(CmdStatusPool(S_tank), Exited(0, ScrubText(input), <<>>)), now)
    /\ pc' = "parsed"
    /\ UNCHANGED <<cfg, now, pool_health, pool_usage, pool_errors, scrub_status, pool_names,
                   report, subject, smtp, console, calls, input>>

NextScrub == ParseScrub

SpecScrub == InitScrub /\ [][NextScrub]_vars

\* the line after the scrub line is an indented continuation line
IndentedNext == input.next # NoLine /\ IsSpaceChar(input.next[1])

\* the scrub status line the claim describes
ClaimedScrubLine ==
    IF IndentedNext THEN Strip(input.scan) \o <<" ">> \o Strip(input.next) ELSE Strip(input.scan)

\* the date a matched text 'on <weekday> <month> <day> <HH:MM:SS> <year>' names
DateNamed(match) == strptime(LStrip(SubSeq(match, 3, Len(match))))

\* C9: only the first scrub line is used; an indented line right after it is joined to it;
\* a date on that continuation line is taken as the time of the last scrub; and when no
\* date is found the last scrub stays 'Never' and the age 'N/A'.
C9_ContinuationLine ==
    pc = "parsed" =>
        /\ output.status = ClaimedScrubLine
        /\ (IndentedNext /\ DateSearch(Strip(input.next)) # NoMatch
                /\ DateSearch(Strip(input.scan)) = NoMatch) =>
               output.last_scrub = strftime(DateNamed(DateSearch(Strip(input.next))))
        /\ DateSearch(ClaimedScrubLine) = NoMatch =>
               output.last_scrub = S_Never /\ output.days_ago = S_NA

====
